---- MODULE Spec2Model ----
(***************************************************************************)
(* CriticalSectionDevice (embedded-hal-bus/src/i2c/critical_section.rs):   *)
(* handles that share one I2C transport held in a Mutex<RefCell<T>>.  Each *)
(* of read, write, write_read and transaction runs                         *)
(*     critical_section::with(|cs| {                                       *)
(*         let bus = &mut *self.bus.borrow_ref_mut(cs);                    *)
(*         bus.<operation>(address, ...)                                   *)
(*     })                                                                  *)
(* The model follows every context (thread or interrupt handler) through   *)
(* the steps of that body: enter the critical section, borrow the RefCell  *)
(* (a plain, non-atomic test and set of its flag), the transport call with *)
(* its low-level bus steps, the drop of the borrow, the exit of the        *)
(* critical section and the return to the caller.                          *)
(***************************************************************************)
EXTENDS Integers, Sequences, FiniteSets, TLC

(* ------------------------------ bounds -------------------------------- *)

\* Total number of handle operations issued in one run.
MaxCalls == 2

(* --------------------------- fixed universe --------------------------- *)

\* Execution contexts: a thread (1) and an interrupt handler (2).
Contexts == {1, 2}

\* cs_owner value when no critical section is active.
NoCtx == 0

\* The shared containers (Mutex<RefCell<T>>) and the handles bound to them by
\* CriticalSectionDevice::new: two handles on container "A", one on "B".
Buses == {"A", "B"}
Handles == {"h1", "h2", "h3"}
NewBinding == [h \in Handles |-> IF h = "h3" THEN "B" ELSE "A"]

\* Operations take `&mut self`: a handle is used by the one context that owns
\* it.  The thread owns h1, the interrupt handler h2 and h3.
HandleOwner == [h \in Handles |-> IF h = "h1" THEN 1 ELSE 2]

\* dropped_at value of a handle that has not been dropped.
Live == -1

\* RefCell's borrow flag: UNUSED when free, UNUSED - 1 while mutably borrowed.
UNUSED == 0

\* Transport stubs of the spec: register emulation with RegCount registers,
\* a fixed error FixedErr for address ErrAddr, and a call counter.
RegCount == 4
ErrAddr == 80
DevAddr == 66
FixedErr == "E"
InitRegs == [i \in 0..(RegCount - 1) |-> 160 + i]
InitDev == [ptr |-> 0, regs |-> InitRegs]

\* Sub-operations of a transaction (embedded_hal::i2c::Operation).
OpWrite(bytes) == [op |-> "W", bytes |-> bytes, len |-> 0]
OpRead(n) == [op |-> "R", bytes |-> <<>>, len |-> n]

\* The calls a context may issue: kind, address and sub-operations (a read is
\* one Read sub-operation, a write one Write, a write_read a Write then a Read).
Requests ==
    { [kind |-> "read", address |-> DevAddr, ops |-> <<OpRead(2)>>],
      [kind |-> "read", address |-> ErrAddr, ops |-> <<OpRead(2)>>],
      [kind |-> "write", address |-> DevAddr, ops |-> <<OpWrite(<<1>>)>>],
      [kind |-> "write", address |-> DevAddr, ops |-> <<OpWrite(<<0, 9>>)>>],
      [kind |-> "write_read", address |-> DevAddr, ops |-> <<OpWrite(<<1>>), OpRead(2)>>],
      [kind |-> "transaction", address |-> DevAddr, ops |-> <<OpWrite(<<1>>), OpRead(2)>>],
      [kind |-> "transaction", address |-> DevAddr, ops |-> <<OpRead(1), OpWrite(<<2>>)>>] }

NoReq == [handle |-> "none", kind |-> "none", address |-> 0, ops |-> <<>>]
NoCall == [kind |-> "none", address |-> 0, ops |-> <<>>, idx |-> 0]

\* Outcomes of one low-level bus step, and results of a call.
StepErrors == {"Nack"}

(* ------------------------------- state -------------------------------- *)

VARIABLES
    bound,      \* handle -> container it was constructed on (the `bus` field)
    dropped_at, \* handle -> number of operations issued when it was dropped, or Live
    cs_owner,   \* context inside the (system-wide) critical section, or NoCtx
    flag,       \* container -> RefCell borrow flag
    dev,        \* container -> register-emulation state of its transport
    calls,      \* container -> the transport's call counter
    trace,      \* container -> recorded low-level steps, each tagged with its operation
    pc,         \* context -> position in the operation body
    req,        \* context -> arguments the caller passed to the handle
    bufs,       \* context -> the caller's read buffers, one per sub-operation
    call,       \* context -> the call as the transport received it, and its progress
    tres,       \* context -> result the transport returned
    ret,        \* context -> result the handle returned to the caller
    opid,       \* context -> serial number of its current operation
    issued,     \* number of handle operations issued so far
    completed,  \* container -> number of handle operations that returned
    events,     \* context -> the events of its current operation, in order
    dev0,       \* context -> transport state when its transport call started
    snap        \* context -> transport state, buffers and counter when the transport returned

handles == <<bound, dropped_at>>
shared == <<handles, cs_owner, flag, dev, calls, trace>>
local == <<pc, req, bufs, call, tres, ret, opid>>
hist == <<issued, completed, events, dev0, snap>>
vars == <<shared, local, hist>>

NoSnap == [dev |-> InitDev, bufs |-> <<>>, calls |-> 0]

BusOf(c) == bound[req[c].handle]

(* ---------------------- transport (register stub) --------------------- *)

\* Bytes of a write after the register pointer byte are stored at the pointer,
\* which advances after each.
RECURSIVE StoreBytes(_, _, _)
StoreBytes(d, bytes, i) ==
    IF i > Len(bytes) THEN d
    ELSE StoreBytes([ptr |-> (d.ptr + 1) % RegCount,
                     regs |-> [d.regs EXCEPT ![d.ptr] = bytes[i]]], bytes, i + 1)

\* write on the register stub: the first byte selects the register.
DevWrite(d, bytes) ==
    IF Len(bytes) = 0 THEN d
    ELSE StoreBytes([d EXCEPT !.ptr = bytes[1] % RegCount], bytes, 2)

\* read on the register stub: n registers from the pointer on.
DevReadBuf(d, n) == [i \in 1..n |-> d.regs[(d.ptr + i - 1) % RegCount]]
DevRead(d, n) == [d EXCEPT !.ptr = (d.ptr + n) % RegCount]

\* One sub-operation applied to the device, and the buffer it fills.
DevStep(d, o) == IF o.op = "W" THEN DevWrite(d, o.bytes) ELSE DevRead(d, o.len)
BufStep(d, o, buf) == IF o.op = "R" THEN DevReadBuf(d, o.len) ELSE buf

\* The stub called directly, on an unshared instance in state d: the state it
\* is left in, the buffer a read fills, and the result.
TransportWrite(d, a, bytes) ==
    IF a = ErrAddr THEN [dev |-> d, res |-> FixedErr]
    ELSE [dev |-> DevWrite(d, bytes), res |-> "ok"]
TransportRead(d, a, n) ==
    IF a = ErrAddr THEN [dev |-> d, buf |-> [j \in 1..n |-> 0], res |-> FixedErr]
    ELSE [dev |-> DevRead(d, n), buf |-> DevReadBuf(d, n), res |-> "ok"]

\* The caller's buffers before the call: zero-filled read buffers.
FreshBufs(ops) == [i \in 1..Len(ops) |-> [j \in 1..ops[i].len |-> 0]]

(* ------------------------------ handle -------------------------------- *)

\* A critical section that excludes nobody (an implementation that only
\* masks the local core's interrupts, seen from another core).
CsFreeBroken == TRUE

\* critical_section::with enters only when no critical section is active.
CsFree == cs_owner = NoCtx

\* A handle that hands the sub-operations over in the opposite order.
Reverse(q) == [i \in 1..Len(q) |-> q[Len(q) + 1 - i]]
ForwardReversed(r) ==
    [kind |-> r.kind, address |-> r.address, ops |-> Reverse(r.ops), idx |-> 0]

\* What the handle passes to the transport: the same kind of call, the same
\* address and the same sub-operations.
Forward(r) == [kind |-> r.kind, address |-> r.address, ops |-> r.ops, idx |-> 0]

\* A handle that swallows the transport's error.
PassResultSwallow(r) == "ok"

\* What the handle returns: the closure's value, i.e. the transport's result.
PassResult(r) == r

Idle(c) == pc[c] \in {"idle", "done"}

\* A context calls read / write / write_read / transaction on one of its
\* handles.
Call(c, h, r) ==
    /\ Idle(c)
    /\ issued < MaxCalls
    /\ h \in DOMAIN bound
    /\ dropped_at[h] = Live
    /\ HandleOwner[h] = c
    /\ pc' = [pc EXCEPT ![c] = "enter"]
    /\ req' = [req EXCEPT ![c] = [handle |-> h, kind |-> r.kind,
                                  address |-> r.address, ops |-> r.ops]]
    /\ bufs' = [bufs EXCEPT ![c] = FreshBufs(r.ops)]
    /\ call' = [call EXCEPT ![c] = NoCall]
    /\ tres' = [tres EXCEPT ![c] = "none"]
    /\ ret' = [ret EXCEPT ![c] = "none"]
    /\ opid' = [opid EXCEPT ![c] = issued + 1]
    /\ issued' = issued + 1
    /\ events' = [events EXCEPT ![c] = <<>>]
    /\ dev0' = [dev0 EXCEPT ![c] = InitDev]
    /\ snap' = [snap EXCEPT ![c] = NoSnap]
    /\ UNCHANGED <<shared, completed>>

\* critical_section::with: acquire.
CsAcquire(c) ==
    /\ pc[c] = "enter"
    /\ CsFree
    /\ cs_owner' = c
    /\ pc' = [pc EXCEPT ![c] = "borrow"]
    /\ events' = [events EXCEPT ![c] = Append(@, "enter")]
    /\ UNCHANGED <<handles, flag, dev, calls, trace, req, bufs, call, tres, ret, opid,
                   issued, completed, dev0, snap>>

\* A cell whose borrow is not tested (access through the raw pointer).
CellFreeUnchecked(b) == TRUE

\* RefCell's test of its flag: a mutable borrow is granted only when unused.
CellFree(b) == flag[b] = UNUSED

\* borrow_ref_mut, first half: RefCell tests its flag and panics when borrowed.
BorrowCheck(c) ==
    /\ pc[c] = "borrow"
    /\ pc' = [pc EXCEPT ![c] = IF CellFree(BusOf(c)) THEN "borrow_set" ELSE "panicked"]
    /\ UNCHANGED <<shared, req, bufs, call, tres, ret, opid, hist>>

\* borrow_ref_mut, second half: the flag is set to "mutably borrowed".
BorrowSet(c) ==
    /\ pc[c] = "borrow_set"
    /\ flag' = [flag EXCEPT ![BusOf(c)] = UNUSED - 1]
    /\ pc' = [pc EXCEPT ![c] = "call"]
    /\ events' = [events EXCEPT ![c] = Append(@, "access")]
    /\ UNCHANGED <<handles, cs_owner, dev, calls, trace, req, bufs, call, tres, ret, opid,
                   issued, completed, dev0, snap>>

\* bus.read / write / write_read / transaction is invoked: the transport
\* counts the call and starts on its sub-operations.
TransportCall(c) ==
    /\ pc[c] = "call"
    /\ call' = [call EXCEPT ![c] = Forward(req[c])]
    /\ calls' = [calls EXCEPT ![BusOf(c)] = @ + 1]
    /\ dev0' = [dev0 EXCEPT ![c] = dev[BusOf(c)]]
    /\ events' = [events EXCEPT ![c] = Append(@, "start")]
    /\ pc' = [pc EXCEPT ![c] = "xfer"]
    /\ UNCHANGED <<handles, cs_owner, flag, dev, trace, req, bufs, tres, ret, opid,
                   issued, completed, snap>>

\* A handle that calls the transport a second time when the first call failed.
AfterReturnRetry(c, r) == IF r # "ok" /\ tres[c] = "none" THEN "call" ELSE "drop"

\* Where the closure goes once the transport has returned r: the call is its
\* last expression, so the closure ends.
AfterReturn(c, r) == "drop"

\* The transport returns result r to the closure.
TransportDone(c, r) ==
    /\ tres' = [tres EXCEPT ![c] = r]
    /\ snap' = [snap EXCEPT ![c] = [dev |-> dev[BusOf(c)], bufs |-> bufs[c],
                                    calls |-> calls[BusOf(c)]]]
    /\ events' = [events EXCEPT ![c] = Append(@, "return")]
    /\ pc' = [pc EXCEPT ![c] = AfterReturn(c, r)]

\* One low-level bus step of the running call succeeds.
TransportStep(c) ==
    /\ pc[c] = "xfer"
    /\ call[c].address # ErrAddr
    /\ call[c].idx < Len(call[c].ops)
    /\ LET i == call[c].idx + 1
           o == call[c].ops[i]
           b == BusOf(c)
       IN /\ dev' = [dev EXCEPT ![b] = DevStep(dev[b], o)]
          /\ bufs' = [bufs EXCEPT ![c][i] = BufStep(dev[b], o, @)]
          /\ trace' = [trace EXCEPT ![b] = Append(@, opid[c])]
          /\ call' = [call EXCEPT ![c].idx = i]
    /\ UNCHANGED <<handles, cs_owner, flag, calls, pc, req, tres, ret, opid, hist>>

\* One low-level bus step fails: the transport returns the error at once.
TransportFail(c, e) ==
    /\ pc[c] = "xfer"
    /\ call[c].address # ErrAddr
    /\ call[c].idx < Len(call[c].ops)
    /\ trace' = [trace EXCEPT ![BusOf(c)] = Append(@, opid[c])]
    /\ TransportDone(c, e)
    /\ UNCHANGED <<handles, cs_owner, flag, dev, calls, req, bufs, call, ret, opid,
                   issued, completed, dev0>>

\* The transport returns: the fixed error for ErrAddr, success after the last
\* sub-operation.
TransportReturn(c) ==
    /\ pc[c] = "xfer"
    /\ call[c].address = ErrAddr \/ call[c].idx = Len(call[c].ops)
    /\ TransportDone(c, IF call[c].address = ErrAddr THEN FixedErr ELSE "ok")
    /\ UNCHANGED <<shared, req, bufs, call, ret, opid, issued, completed, dev0>>

\* A borrow that is leaked (mem::forget of the RefMut): the flag stays down.
BorrowLeak(c) ==
    /\ pc[c] = "drop"
    /\ pc' = [pc EXCEPT ![c] = "exit"]
    /\ UNCHANGED <<shared, req, bufs, call, tres, ret, opid, hist>>

\* End of the closure: the RefMut is dropped, the flag goes back up by one.
BorrowDrop(c) ==
    /\ pc[c] = "drop"
    /\ flag' = [flag EXCEPT ![BusOf(c)] = @ + 1]
    /\ pc' = [pc EXCEPT ![c] = "exit"]
    /\ UNCHANGED <<handles, cs_owner, dev, calls, trace, req, bufs, call, tres, ret, opid, hist>>

\* A critical section that covers only the access to the cell: it is left
\* as soon as the borrow is made, before the transport is called.
CsReleaseEarly(c) ==
    \/ /\ pc[c] = "call"
       /\ cs_owner = c
       /\ cs_owner' = NoCtx
       /\ events' = [events EXCEPT ![c] = Append(@, "exit")]
       /\ UNCHANGED <<handles, flag, dev, calls, trace, local, issued, completed, dev0, snap>>
    \/ /\ pc[c] = "exit"
       /\ pc' = [pc EXCEPT ![c] = "return"]
       /\ UNCHANGED <<shared, req, bufs, call, tres, ret, opid, hist>>

\* A critical section that is left only when the transport succeeded.
CsReleaseOkOnly(c) ==
    /\ pc[c] = "exit"
    /\ cs_owner' = IF tres[c] = "ok" THEN NoCtx ELSE cs_owner
    /\ pc' = [pc EXCEPT ![c] = "return"]
    /\ events' = [events EXCEPT ![c] = Append(@, "exit")]
    /\ UNCHANGED <<handles, flag, dev, calls, trace, req, bufs, call, tres, ret, opid,
                   issued, completed, dev0, snap>>

\* critical_section::with: release.
CsRelease(c) ==
    /\ pc[c] = "exit"
    /\ cs_owner' = NoCtx
    /\ pc' = [pc EXCEPT ![c] = "return"]
    /\ events' = [events EXCEPT ![c] = Append(@, "exit")]
    /\ UNCHANGED <<handles, flag, dev, calls, trace, req, bufs, call, tres, ret, opid,
                   issued, completed, dev0, snap>>

\* A handle whose destructor "frees the bus": it resets the borrow flag of
\* its container.
DropFreesBus(c, h) ==
    /\ Idle(c)
    /\ HandleOwner[h] = c
    /\ dropped_at[h] = Live
    /\ dropped_at' = [dropped_at EXCEPT ![h] = issued]
    /\ flag' = [flag EXCEPT ![bound[h]] = UNUSED]
    /\ UNCHANGED <<bound, cs_owner, dev, calls, trace, local, hist>>

\* The owner of a handle drops it.  CriticalSectionDevice has no destructor
\* and holds only a reference: the handle is gone and nothing else changes.
Drop(c, h) ==
    /\ Idle(c)
    /\ HandleOwner[h] = c
    /\ dropped_at[h] = Live
    /\ dropped_at' = [dropped_at EXCEPT ![h] = issued]
    /\ UNCHANGED <<bound, cs_owner, flag, dev, calls, trace, local, hist>>

\* An operation that re-points its handle at another container.
ReturnRebinds(c) ==
    /\ pc[c] = "return"
    /\ ret' = [ret EXCEPT ![c] = PassResult(tres[c])]
    /\ completed' = [completed EXCEPT ![BusOf(c)] = @ + 1]
    /\ pc' = [pc EXCEPT ![c] = "done"]
    /\ bound' = [bound EXCEPT ![req[c].handle] = IF @ = "A" THEN "B" ELSE "A"]
    /\ UNCHANGED <<dropped_at, cs_owner, flag, dev, calls, trace, req, bufs, call, tres,
                   opid, issued, events, dev0, snap>>

\* The operation returns the closure's value to its caller.
Return(c) ==
    /\ pc[c] = "return"
    /\ ret' = [ret EXCEPT ![c] = PassResult(tres[c])]
    /\ completed' = [completed EXCEPT ![BusOf(c)] = @ + 1]
    /\ pc' = [pc EXCEPT ![c] = "done"]
    /\ UNCHANGED <<shared, req, bufs, call, tres, opid, issued, events, dev0, snap>>

Init ==
    /\ bound = NewBinding
    /\ dropped_at = [h \in Handles |-> Live]
    /\ cs_owner = NoCtx
    /\ flag = [b \in Buses |-> UNUSED]
    /\ dev = [b \in Buses |-> InitDev]
    /\ calls = [b \in Buses |-> 0]
    /\ trace = [b \in Buses |-> <<>>]
    /\ pc = [c \in Contexts |-> "idle"]
    /\ req = [c \in Contexts |-> NoReq]
    /\ bufs = [c \in Contexts |-> <<>>]
    /\ call = [c \in Contexts |-> NoCall]
    /\ tres = [c \in Contexts |-> "none"]
    /\ ret = [c \in Contexts |-> "none"]
    /\ opid = [c \in Contexts |-> 0]
    /\ issued = 0
    /\ completed = [b \in Buses |-> 0]
    /\ events = [c \in Contexts |-> <<>>]
    /\ dev0 = [c \in Contexts |-> InitDev]
    /\ snap = [c \in Contexts |-> NoSnap]

Next ==
    \E c \in Contexts :
        \/ \E h \in Handles, r \in Requests : Call(c, h, r)
        \/ CsAcquire(c)
        \/ BorrowCheck(c)
        \/ BorrowSet(c)
        \/ TransportCall(c)
        \/ TransportStep(c)
        \/ \E e \in StepErrors : TransportFail(c, e)
        \/ TransportReturn(c)
        \/ BorrowDrop(c)
        \/ CsRelease(c)
        \/ Return(c)

Spec == Init /\ [][Next]_vars

\* The steps of an operation that has been called.
Step(c) ==
    \/ CsAcquire(c)
    \/ BorrowCheck(c)
    \/ BorrowSet(c)
    \/ TransportCall(c)
    \/ TransportStep(c)
    \/ \E e \in StepErrors : TransportFail(c, e)
    \/ TransportReturn(c)
    \/ BorrowDrop(c)
    \/ CsRelease(c)
    \/ Return(c)

\* Reentrant use: code run by the transport call of a context (the closure
\* still holds the RefMut) calls an operation on another handle of the same
\* container that no other context is using.
NestedCall(c, h) ==
    /\ pc[c] = "xfer"
    /\ h # req[c].handle
    /\ dropped_at[h] = Live
    /\ bound[h] = BusOf(c)
    /\ \A o \in Contexts \ {c} : Idle(o) \/ req[o].handle # h
    /\ pc' = [pc EXCEPT ![c] = "n_enter"]
    /\ UNCHANGED <<shared, req, bufs, call, tres, ret, opid, hist>>

\* The nested critical_section::with: the context that owns the critical
\* section may enter it again.
NestedAcquire(c) ==
    /\ pc[c] = "n_enter"
    /\ CsFree \/ cs_owner = c
    /\ cs_owner' = c
    /\ pc' = [pc EXCEPT ![c] = "n_borrow"]
    /\ UNCHANGED <<handles, flag, dev, calls, trace, req, bufs, call, tres, ret, opid, hist>>

\* The nested borrow_ref_mut: the cell is borrowed by the outer operation, so
\* RefCell panics; were the cell free, a second RefMut would exist.
NestedBorrowCheck(c) ==
    /\ pc[c] = "n_borrow"
    /\ pc' = [pc EXCEPT ![c] = IF CellFree(BusOf(c)) THEN "n_access" ELSE "panicked"]
    /\ UNCHANGED <<shared, req, bufs, call, tres, ret, opid, hist>>

\* The program with reentrant use.
NextReentrant ==
    \E c \in Contexts :
        \/ \E h \in Handles, r \in Requests : Call(c, h, r)
        \/ Step(c)
        \/ \E h \in Handles : NestedCall(c, h)
        \/ NestedAcquire(c)
        \/ NestedBorrowCheck(c)

SpecReentrant == Init /\ [][NextReentrant]_vars

\* Fair scheduling: a context that can take the next step of its operation
\* eventually takes it (the transport's calls terminate, and a context inside
\* the critical section is the one that runs).
FairRequests ==
    {r \in Requests : r.kind = "write_read" \/ r.address = ErrAddr
                        \/ r.ops = <<OpWrite(<<1>>)>>}

NextFair ==
    \E c \in Contexts :
        \/ \E h \in Handles, r \in FairRequests : Call(c, h, r)
        \/ Step(c)

FairSpec == Init /\ [][NextFair]_vars /\ \A c \in Contexts : WF_vars(Step(c))

\* The calls issued in the runs where handles are dropped.
DropRequests ==
    {r \in Requests : r.kind = "read" \/ r.ops = <<OpWrite(<<0, 9>>)>>
                        \/ r.ops = <<OpRead(1), OpWrite(<<2>>)>>}

\* The same program whose contexts may also drop their handles.
NextDrop ==
    \E c \in Contexts :
        \/ \E h \in Handles, r \in DropRequests : Call(c, h, r)
        \/ Step(c)
        \/ \E h \in Handles : Drop(c, h)

SpecDrop == Init /\ [][NextDrop]_vars

(* ------------------------------ claims -------------------------------- *)

\* A context is between the start and the end of a transport call.
InTransport(c) == pc[c] = "xfer"

\* A context holds the mutable access to the transport (the RefMut is live).
HoldsAccess(c) == pc[c] \in {"call", "xfer", "drop"}

\* A context has called an operation that waits to enter the critical section.
Pending(c) == pc[c] = "enter"

\* C1: mutual exclusion.  In every reachable state at most one context is
\* inside a transport call on a given container, and at most one holds the
\* mutable access to its transport.
C1_MutualExclusion ==
    \A c1, c2 \in Contexts :
        (c1 # c2 /\ HoldsAccess(c1) /\ HoldsAccess(c2)) => BusOf(c1) # BusOf(c2)

\* C1 witness: one context is inside a transport call while the other has
\* called an operation on a second handle of the same container.
C1_Witness ==
    \E c1, c2 \in Contexts :
        /\ c1 # c2
        /\ InTransport(c1)
        /\ Pending(c2)
        /\ req[c1].handle # req[c2].handle
        /\ BusOf(c1) = BusOf(c2)

\* The steps recorded on a container form whole blocks: between two steps of
\* one operation there is no step of another.
Contiguous(t) ==
    \A i, j, k \in 1..Len(t) : (i < j /\ j < k /\ t[i] = t[k]) => t[j] = t[i]

\* C2: trace contiguity.  On every container the recorded low-level steps are
\* a concatenation of whole operations, the sub-operations of a transaction
\* included.
C2_TraceContiguity == \A b \in Buses : Contiguous(trace[b])

\* C2 witness: two contexts have each run an operation on the same
\* container, a transaction of two sub-operations and a later-issued one, and
\* the container's trace is the transaction's two steps, then the other's.
C2_Witness ==
    \E c1, c2 \in Contexts :
        /\ c1 # c2
        /\ pc[c1] = "done" /\ pc[c2] = "done"
        /\ BusOf(c1) = BusOf(c2)
        /\ req[c1].kind = "transaction"
        /\ opid[c1] < opid[c2]
        /\ trace[BusOf(c1)] = <<opid[c1], opid[c1], opid[c2]>>

\* Results a transport can return.
TransportResults == {"ok", FixedErr} \cup StepErrors

\* C3: pass-through fidelity.  The result an operation returns is the result
\* the transport returned for that call, no other value exists, and a call
\* to address ErrAddr returns the fixed error.
C3_PassThrough ==
    \A c \in Contexts :
        /\ pc[c] # "panicked"
        /\ pc[c] = "done" =>
               /\ ret[c] = tres[c]
               /\ ret[c] \in TransportResults
               /\ req[c].address = ErrAddr => ret[c] = FixedErr

\* C3 witness: a read of address ErrAddr has returned the fixed error.
C3_Witness ==
    \E c \in Contexts :
        /\ pc[c] = "done"
        /\ req[c].kind = "read"
        /\ req[c].address = ErrAddr
        /\ ret[c] = FixedErr

\* The events of one operation, in the order the code produces them.
EventOrder == <<"enter", "access", "start", "return", "exit">>
IsPrefix(p, q) == Len(p) <= Len(q) /\ \A i \in 1..Len(p) : p[i] = q[i]

\* C4: the critical section spans the whole transport call.  The events of
\* every operation occur in the order enter critical section, obtain access,
\* transport call starts, transport call returns, exit critical section, and
\* an operation that has left the critical section has been through all five.
C4_CsSpansCall ==
    \A c \in Contexts :
        /\ IsPrefix(events[c], EventOrder)
        /\ pc[c] \in {"return", "done"} => events[c] = EventOrder

\* C4 witness: a transaction of two sub-operations has run both and returned.
C4_Witness ==
    \E c \in Contexts :
        /\ pc[c] = "done"
        /\ req[c].kind = "transaction"
        /\ call[c].idx = 2
        /\ events[c] = EventOrder

\* C5: the transport is never accessed outside a critical section.  A
\* context that is borrowing the cell, holds the mutable access or runs a
\* transport operation is the owner of the active critical section.
C5_AccessInsideCs ==
    \A c \in Contexts :
        pc[c] \in {"borrow", "borrow_set", "call", "xfer", "drop"} => cs_owner = c

\* C5 witness: a context is past the first low-level step of its transport
\* call while the other context waits to enter.
C5_Witness ==
    \E c1, c2 \in Contexts :
        /\ c1 # c2
        /\ InTransport(c1)
        /\ call[c1].idx = 1
        /\ Pending(c2)

\* A context is inside the critical section.
InCs(c) == pc[c] \in {"borrow", "borrow_set", "call", "xfer", "drop", "exit"}

\* C6: release before return, on every outcome.  When an operation returns,
\* its context no longer owns the critical section and no longer holds the
\* borrow: the critical section is free or owned by another context that
\* entered it, and the cell is unborrowed or borrowed by another context.
C6_ReleasedOnReturn ==
    \A c \in Contexts :
        pc[c] \in {"return", "done"} =>
            /\ cs_owner # c
            /\ \/ cs_owner = NoCtx
               \/ \E o \in Contexts \ {c} : cs_owner = o /\ InCs(o)
            /\ \/ flag[BusOf(c)] = UNUSED
               \/ \E o \in Contexts \ {c} : HoldsAccess(o) /\ BusOf(o) = BusOf(c)

\* C6 witness: an operation returned an error, and the operation issued after
\* it through the other handle of the same container is inside its transport
\* call.
C6_Witness ==
    \E c1, c2 \in Contexts :
        /\ c1 # c2
        /\ pc[c1] = "done"
        /\ ret[c1] \in StepErrors
        /\ InTransport(c2)
        /\ opid[c2] > opid[c1]
        /\ BusOf(c1) = BusOf(c2)

\* Operations on container b whose transport call has started and which have
\* not yet returned to their caller.
InFlight(b) ==
    Cardinality({c \in Contexts :
                    pc[c] \in {"xfer", "drop", "exit", "return"} /\ BusOf(c) = b})

\* C7: no lost or duplicated transport calls.  No context aborts, and the
\* transport's call counter equals the number of operations completed on its
\* container plus those in flight; with none in flight it is exactly the
\* number of completed operations.
C7_CounterExact ==
    /\ \A c \in Contexts : pc[c] # "panicked"
    /\ \A b \in Buses : calls[b] = completed[b] + InFlight(b)

\* C7 witness: two contexts have each completed one operation through the two
\* handles of container "A", and its counter is 2.
C7_Witness ==
    /\ \A c \in Contexts : pc[c] = "done" /\ BusOf(c) = "A"
    /\ completed["A"] = 2
    /\ calls["A"] = 2

\* The transport has been called for the current operation of a context.
Called(c) == pc[c] \in {"xfer", "drop", "exit", "return", "done"}

\* C8: argument forwarding.  The transport receives the kind of call, the
\* address and the sub-operations, in order, that the caller gave the handle.
C8_ArgumentForwarding ==
    \A c \in Contexts :
        Called(c) =>
            /\ call[c].kind = req[c].kind
            /\ call[c].address = req[c].address
            /\ call[c].ops = req[c].ops

\* C8 witness: the transport is after the first sub-operation of a
\* transaction that reads and then writes.
C8_Witness ==
    \E c \in Contexts :
        /\ InTransport(c)
        /\ req[c].kind = "transaction"
        /\ req[c].ops = <<OpRead(1), OpWrite(<<2>>)>>
        /\ call[c].idx = 1

\* The transaction of the spec's example: write [0x01], then read two bytes.
IsExample(r) ==
    /\ r.kind = "transaction"
    /\ r.address = DevAddr
    /\ r.ops = <<OpWrite(<<1>>), OpRead(2)>>

\* C9: equivalence with the unshared transport.  A successful example
\* transaction through a handle leaves the read buffer and the register
\* state that write then read leave when called directly on an unshared
\* transport started in the same state.
C9_SameAsUnshared ==
    \A c \in Contexts :
        (pc[c] \in {"drop", "exit", "return", "done"} /\ IsExample(req[c]) /\ tres[c] = "ok") =>
            LET w == TransportWrite(dev0[c], DevAddr, <<1>>)
                r == TransportRead(w.dev, DevAddr, 2)
            IN /\ bufs[c][2] = r.buf
               /\ snap[c].dev = r.dev
               /\ r.res = tres[c]

\* C9 witness: the example transaction succeeded on a transport that an
\* earlier write had taken out of its initial state.
C9_Witness ==
    \E c \in Contexts :
        /\ pc[c] = "done"
        /\ IsExample(req[c])
        /\ ret[c] = "ok"
        /\ dev0[c].regs # InitRegs

\* Number of times the transport was called for the current operation.
Starts(c) == Cardinality({i \in 1..Len(events[c]) : events[c][i] = "start"})

\* C10: no retry and no rollback.  When the transport returned an error, it
\* was called once for that operation, the caller's buffers are as the
\* transport left them, the handle does not touch the transport before it
\* leaves the critical section, and the operation returns that error.
C10_NoRetryNoRollback ==
    \A c \in Contexts :
        (tres[c] \notin {"none", "ok"}) =>
            /\ Starts(c) = 1
            /\ bufs[c] = snap[c].bufs
            /\ pc[c] \in {"drop", "exit"} =>
                   /\ dev[BusOf(c)] = snap[c].dev
                   /\ calls[BusOf(c)] = snap[c].calls
            /\ pc[c] = "done" => ret[c] = tres[c]

\* C10 witness: a transaction failed at its second sub-operation; the first
\* one's effect on the transport stays and the error was returned.
C10_Witness ==
    \E c \in Contexts :
        /\ pc[c] = "done"
        /\ req[c].kind = "transaction"
        /\ call[c].idx = 1
        /\ ret[c] \in StepErrors
        /\ snap[c].dev # dev0[c]

\* The transport state after the first n sub-operations of ops, run from
\* state d, and the caller's buffers then.
RECURSIVE DevAfter(_, _, _)
DevAfter(d, ops, n) == IF n = 0 THEN d ELSE DevStep(DevAfter(d, ops, n - 1), ops[n])
BufsAfter(d, ops, n) ==
    [i \in 1..Len(ops) |->
        IF i <= n THEN BufStep(DevAfter(d, ops, i - 1), ops[i], FreshBufs(ops)[i])
        ELSE FreshBufs(ops)[i]]

\* A step that drops a handle leaves the containers, the other handles and
\* every context's operation as they were.
DropFrame ==
    (dropped_at' # dropped_at) =>
        /\ UNCHANGED <<bound, cs_owner, flag, dev, calls, trace, local>>
        /\ Cardinality({h \in Handles : dropped_at'[h] # dropped_at[h]}) = 1

\* The outcome of an operation whose transport call has returned is the one
\* its arguments, the transport's state at its start and the sub-operation
\* the transport stopped at determine, whichever handles have been dropped.
OutcomeAsExpected ==
    \A c \in Contexts :
        pc[c] \in {"drop", "exit", "return", "done"} =>
            /\ snap[c].dev = DevAfter(dev0[c], req[c].ops, call[c].idx)
            /\ bufs[c] = BufsAfter(dev0[c], req[c].ops, call[c].idx)
            /\ tres[c] = "ok" <=>
                   (req[c].address # ErrAddr /\ call[c].idx = Len(req[c].ops))
            /\ pc[c] = "done" => ret[c] = tres[c]

\* C11: dropping a handle changes nothing else.  The step that drops a
\* handle leaves every container, every other handle and every operation
\* unchanged, and an operation on another handle has the result and the
\* effect on the transport it has with no handle dropped.
C11_DropChangesNothing == [][DropFrame]_vars /\ []OutcomeAsExpected

\* C11 witness: the interrupt handler used h2 and dropped it; the thread then
\* issued an operation on h1, bound to the same container, which succeeded.
C11_Witness ==
    /\ dropped_at["h2"] # Live
    /\ pc[2] = "done" /\ req[2].handle = "h2"
    /\ pc[1] = "done" /\ req[1].handle = "h1"
    /\ opid[1] > dropped_at["h2"]
    /\ ret[1] = "ok"

\* An operation has returned a result of the transport to its caller.
Returned(c) == pc[c] = "done" /\ ret[c] \in TransportResults

\* C12: operations complete and acquisition never fails.  Under fair
\* scheduling every operation that has entered its critical section
\* eventually returns the transport's success or the transport's error, and
\* no context ever aborts at the acquisition.
C12_Completes ==
    /\ \A c \in Contexts : InCs(c) ~> Returned(c)
    /\ [](\A c \in Contexts : pc[c] # "panicked")

\* C12 witness: the two contexts called write_read on the same container;
\* one call returned success and the other the transport's error.
C12_Witness ==
    \E c1, c2 \in Contexts :
        /\ Returned(c1) /\ Returned(c2)
        /\ req[c1].kind = "write_read" /\ req[c2].kind = "write_read"
        /\ BusOf(c1) = BusOf(c2)
        /\ ret[c1] = "ok"
        /\ ret[c2] \in StepErrors

\* The cell of container b is mutably borrowed.
Held(b) == flag[b] # UNUSED

\* C13 as stated: the cell of a container is mutably borrowed exactly when
\* some operation on it is between its critical-section entry and exit.
C13_HeldExactlyInCs ==
    \A b \in Buses : Held(b) <=> \E c \in Contexts : InCs(c) /\ BusOf(c) = b

\* The cell is borrowed exactly while an operation on its container holds the
\* borrow, such an operation is inside its critical section, and an
\* operation about to borrow finds the cell free.
TwoStates ==
    /\ \A b \in Buses :
           /\ flag[b] \in {UNUSED, UNUSED - 1}
           /\ Held(b) <=> \E c \in Contexts : HoldsAccess(c) /\ BusOf(c) = b
    /\ \A c \in Contexts :
           /\ HoldsAccess(c) => InCs(c) /\ cs_owner = c
           /\ pc[c] \in {"borrow", "borrow_set"} => ~Held(BusOf(c))

\* The cell changes state only in the borrow of an operation that is inside
\* its critical section (free to held) and in the drop of that borrow (held
\* to free).
FlagSteps ==
    \A b \in Buses :
        (flag'[b] # flag[b]) =>
            \E c \in Contexts :
                /\ cs_owner = c /\ cs_owner' = c
                /\ BusOf(c) = b
                /\ \/ pc[c] = "borrow_set" /\ pc'[c] = "call" /\ ~Held(b) /\ Held(b)'
                   \/ pc[c] = "drop" /\ pc'[c] = "exit" /\ Held(b) /\ ~Held(b)'

\* C13 (amended): the cell of a container is mutably borrowed exactly when
\* some operation on it is between its borrow and the drop of that borrow,
\* both inside the operation's critical section; it goes from free to held
\* only at the borrow and from held to free only at the drop; with no
\* operation on the container in progress it is unborrowed, and the borrow
\* of an operation that entered the critical section always succeeds.
C13_TwoStateCell == []TwoStates /\ [][FlagSteps]_vars

\* C13 witness: after one operation returned, the next operation on the same
\* container has entered the critical section and passed the borrow test.
C13_Witness ==
    \E c1, c2 \in Contexts :
        /\ c1 # c2
        /\ pc[c1] = "done"
        /\ pc[c2] = "borrow_set"
        /\ opid[c2] > opid[c1]
        /\ BusOf(c1) = BusOf(c2)
        /\ ~Held(BusOf(c2))

\* C14: exclusion is system-wide.  At most one context is inside a critical
\* section at any instant, whatever containers the operations are on, and it
\* is the owner of the critical section; in particular no context is inside
\* a transport call on one container while another is on another container.
C14_SystemWideExclusion ==
    \A c1, c2 \in Contexts :
        /\ InCs(c1) => cs_owner = c1
        /\ (InCs(c1) /\ InCs(c2)) => c1 = c2
        /\ (InTransport(c1) /\ InTransport(c2)) => c1 = c2

\* C14 witness: one context is inside a transport call on one container
\* while the other has called an operation on a handle of the other
\* container and waits.
C14_Witness ==
    \E c1, c2 \in Contexts :
        /\ InTransport(c1)
        /\ call[c1].idx >= 1
        /\ Pending(c2)
        /\ BusOf(c1) # BusOf(c2)

\* The RefMut of a context's operation is live: also while the nested
\* attempt made from inside its transport call runs, and after it aborted.
OuterAccess(c) ==
    HoldsAccess(c) \/ pc[c] \in {"n_enter", "n_borrow", "n_access", "panicked"}

\* Mutable accesses to the transport of container b: the RefMuts of
\* operations, and those a nested borrow has yielded.
Accesses(b) ==
    Cardinality({c \in Contexts : OuterAccess(c) /\ BusOf(c) = b})
    + Cardinality({c \in Contexts : pc[c] = "n_access" /\ BusOf(c) = b})

\* C15: reentrant use never yields a second mutable access.  A nested
\* operation on the container whose transport the same context holds never
\* gets past its borrow; when it has aborted there, the transport has been
\* called once, by the outer operation; and no container ever has two
\* mutable accesses to its transport.
C15_NoSecondAccess ==
    /\ \A c \in Contexts :
           /\ pc[c] # "n_access"
           /\ pc[c] = "panicked" =>
                  /\ Starts(c) = 1
                  /\ calls[BusOf(c)] = completed[BusOf(c)] + 1
                  /\ tres[c] = "none"
    /\ \A b \in Buses : Accesses(b) <= 1

\* C15 witness: between the two sub-operations of its transaction a context
\* attempted a nested operation on the same container and aborted at the
\* borrow.
C15_Witness ==
    \E c \in Contexts :
        /\ pc[c] = "panicked"
        /\ req[c].kind = "transaction"
        /\ call[c].idx = 1
        /\ Held(BusOf(c))
        /\ cs_owner = c

\* Number of critical sections the current operation of a context entered.
Enters(c) == Cardinality({i \in 1..Len(events[c]) : events[c][i] = "enter"})

\* C16: deadlock freedom.  Whenever some operation has been called and has
\* not returned, some context can take the next step of its operation; and
\* an operation enters one critical section, once.
C16_DeadlockFree ==
    /\ (\E c \in Contexts : ~Idle(c)) => \E c \in Contexts : ENABLED Step(c)
    /\ \A c \in Contexts : Enters(c) <= 1 /\ (InCs(c) => Enters(c) = 1)

\* C16 witness: an operation whose transport call failed is about to drop
\* its borrow while the other context's operation, on the other container,
\* waits to enter.
C16_Witness ==
    \E c1, c2 \in Contexts :
        /\ pc[c1] = "drop"
        /\ tres[c1] \in StepErrors
        /\ Pending(c2)
        /\ ~ENABLED CsAcquire(c2)
        /\ BusOf(c1) # BusOf(c2)

\* Every handle refers to the container its constructor was given.
AsConstructed == bound = NewBinding

\* A step of an operation (it changes some context's position, arguments,
\* buffers or results) changes no handle.
OperationKeepsHandles == (local' # local) => handles' = handles

\* C17: handles are stateless and stay bound.  Every handle refers to the
\* container it was constructed on in every state, and no step of an
\* operation changes any handle, the one it was called on included.
C17_HandlesStayBound == []AsConstructed /\ [][OperationKeepsHandles]_vars

\* C17 witness: the thread completed an operation on h1 and the interrupt
\* handler one on h3, bound to the other container, after it dropped h2.
C17_Witness ==
    /\ pc[1] = "done" /\ req[1].handle = "h1"
    /\ pc[2] = "done" /\ req[2].handle = "h3"
    /\ dropped_at["h2"] # Live
    /\ opid[2] > dropped_at["h2"]
    /\ completed = [b \in Buses |-> 1]

====
